---- MODULE Spec2Model ----
(***************************************************************************)
(* Model of utilities/site_generator.py: the platform tree built from the  *)
(* config directory, the stack-based preorder traversal, and write_website *)
(* acting on the output file system.                                       *)
(*                                                                         *)
(* Strings are sequences of one-character strings, paths are sequences of  *)
(* path segments (strings).  An optional value is <<>> (None) or <<x>>.    *)
(***************************************************************************)
EXTENDS Integers, Sequences, FiniteSets, TLC

VARIABLES
    config,     \* the input tree under config/platforms, as found on disk
    fs0,        \* the output file system when the program starts
    fs,         \* the output file system: path -> [kind, build]
    tree,       \* root_dir: rel. path of a PlatformDirectory -> its fields
    stack,      \* preorder_traversal's stack (of directory paths)
    directory,  \* preorder_traversal's current directory
    vidx,       \* index of the next version preorder_traversal yields
    visited,    \* the nodes yielded so far, in order
    feed,       \* the entries added to the AtomFeed, in order
    log,        \* the output file system calls made so far, in order
    pc,         \* position in main()
    err         \* the exception that ended the run, "" if none

vars == <<config, fs0, fs, tree, stack, directory, vidx, visited, feed, log, pc, err>>

\* Bounds of the model
MaxDirs == 3        \* directories below the root
MaxDepth == 2       \* nesting of directories below the root
MaxVersions == 2    \* version-config files in the directory that varies them

None == <<>>
Some(x) == <<x>>

Last(s) == s[Len(s)]
Front(s) == SubSeq(s, 1, Len(s) - 1)
Reverse(s) == [i \in 1..Len(s) |-> s[Len(s) + 1 - i]]
Min(a, b) == IF a < b THEN a ELSE b

(***************************************************************************)
(* Characters and their code points (str comparison is by code point).     *)
(***************************************************************************)
Ord ==
    (" " :> 32) @@ ("-" :> 45) @@ ("." :> 46) @@
    ("0" :> 48) @@ ("1" :> 49) @@ ("2" :> 50) @@ ("3" :> 51) @@ ("4" :> 52) @@
    ("5" :> 53) @@ ("6" :> 54) @@ ("7" :> 55) @@ ("8" :> 56) @@ ("9" :> 57) @@
    (":" :> 58) @@ ("A" :> 65) @@ ("B" :> 66) @@ ("R" :> 82) @@ ("T" :> 84) @@
    ("X" :> 88) @@ ("a" :> 97) @@ ("b" :> 98) @@ ("c" :> 99) @@ ("d" :> 100) @@
    ("e" :> 101) @@ ("f" :> 102) @@ ("h" :> 104) @@ ("i" :> 105) @@
    ("l" :> 108) @@ ("m" :> 109) @@ ("n" :> 110) @@ ("p" :> 112) @@
    ("r" :> 114) @@ ("s" :> 115) @@ ("t" :> 116) @@ ("u" :> 117) @@
    ("x" :> 120)

IsLetter(c) == Ord[c] \in (65..90) \cup (97..122)   \* [a-zA-Z]
IsDigit(c) == Ord[c] \in 48..57                     \* [0-9]
DigitChar == <<"0", "1", "2", "3", "4", "5", "6", "7", "8", "9">>

\* str.__lt__: lexicographic by code point, a proper prefix is smaller
StrLT(a, b) ==
    \E i \in 1..(Min(Len(a), Len(b)) + 1) :
        /\ \A j \in 1..(i - 1) : a[j] = b[j]
        /\ \/ i > Len(a) /\ i <= Len(b)
           \/ i <= Len(a) /\ i <= Len(b) /\ Ord[a[i]] < Ord[b[i]]

\* PurePath.__lt__: the lists of path segments compared lexicographically
PathLT(p, q) ==
    \E i \in 1..(Min(Len(p), Len(q)) + 1) :
        /\ \A j \in 1..(i - 1) : p[j] = q[j]
        /\ \/ i > Len(p) /\ i <= Len(q)
           \/ i <= Len(p) /\ i <= Len(q) /\ StrLT(p[i], q[i])

(***************************************************************************)
(* Names fixed by the program.                                             *)
(***************************************************************************)
RELEASES == <<"r", "e", "l", "e", "a", "s", "e", "s">>
OUTPUT_SUFFIX == <<".", "h", "t", "m", "l">>
OUTPUT_INDEX == <<"i", "n", "d", "e", "x">> \o OUTPUT_SUFFIX
FEED_FILE == <<"f", "e", "e", "d", ".", "x", "m", "l">>

(***************************************************************************)
(* _version_sorting_key: the packaging Version of the stem with dashes     *)
(* turned into dots and letters removed.  A Version made of a release      *)
(* segment only compares by its release numbers, trailing zeros dropped.   *)
(***************************************************************************)
ReplaceDashes(s) == [i \in 1..Len(s) |-> IF s[i] = "-" THEN "." ELSE s[i]]
RemoveLetters(s) == SelectSeq(s, LAMBDA c : ~IsLetter(c))
KeyText(stem) == RemoveLetters(ReplaceDashes(stem))

RECURSIVE SplitDots(_)
SplitDots(s) ==
    IF \A i \in 1..Len(s) : s[i] # "."
    THEN <<s>>
    ELSE LET k == CHOOSE i \in 1..Len(s) :
                      s[i] = "." /\ \A j \in 1..(i - 1) : s[j] # "."
         IN  <<SubSeq(s, 1, k - 1)>> \o SplitDots(SubSeq(s, k + 1, Len(s)))

RECURSIVE ParseInt(_)
ParseInt(f) ==
    IF f = <<>> THEN 0 ELSE ParseInt(Front(f)) * 10 + (Ord[Last(f)] - 48)

\* Version(text) accepts digits separated by single dots: [0-9]+(\.[0-9]+)*
ValidVersion(text) ==
    LET fields == SplitDots(text)
    IN  \A i \in 1..Len(fields) :
            /\ fields[i] # <<>>
            /\ \A j \in 1..Len(fields[i]) : IsDigit(fields[i][j])

RECURSIVE StripTrailingZeros(_)
StripTrailingZeros(r) ==
    IF r # <<>> /\ Last(r) = 0 THEN StripTrailingZeros(Front(r)) ELSE r

Release(text) ==
    LET fields == SplitDots(text)
    IN  [i \in 1..Len(fields) |-> ParseInt(fields[i])]

_version_sorting_key(stem) == StripTrailingZeros(Release(KeyText(stem)))

\* comparison of two keys (tuples of ints, lexicographic)
KeyLT(a, b) ==
    \E i \in 1..(Min(Len(a), Len(b)) + 1) :
        /\ \A j \in 1..(i - 1) : a[j] = b[j]
        /\ \/ i > Len(a) /\ i <= Len(b)
           \/ i <= Len(a) /\ i <= Len(b) /\ a[i] < b[i]
KeyGE(a, b) == ~KeyLT(a, b)

(***************************************************************************)
(* sorted(..., key=_version_sorting_key, reverse=True): a stable sort; an  *)
(* element goes behind every element already placed that does not have to  *)
(* come after it, so elements with equal keys keep their glob order.       *)
(***************************************************************************)
InsertByKey(placed, x, reverse) ==
    LET kx == _version_sorting_key(x.stem)
        stays(i) == LET ki == _version_sorting_key(placed[i].stem)
                    IN  IF reverse THEN KeyGE(ki, kx) ELSE KeyGE(kx, ki)
        k == Cardinality({i \in 1..Len(placed) : stays(i)})
    IN  SubSeq(placed, 1, k) \o <<x>> \o SubSeq(placed, k + 1, Len(placed))

RECURSIVE StableSort(_, _)
StableSort(globbed, reverse) ==
    IF globbed = <<>>
    THEN <<>>
    ELSE InsertByKey(StableSort(Front(globbed), reverse), Last(globbed), reverse)

sorted_ascending(globbed) == StableSort(globbed, FALSE)
sorted_versions(globbed) == StableSort(globbed, TRUE)

\* PlatformVersion.__init__
PlatformVersion(dir_path, ini) ==
    [path |-> Append(dir_path, ini.stem),
     parent |-> dir_path,
     version |-> ini.stem,
     display_name |-> ini.stem,
     publication_time |-> ini.publication_time]

\* list.sort() of PlatformDirectory objects, ordered by __lt__ on their paths
RECURSIVE SortPaths(_)
SortPaths(S) ==
    IF S = {}
    THEN <<>>
    ELSE LET m == CHOOSE x \in S : \A y \in S \ {x} : PathLT(x, y)
         IN  <<m>> \o SortPaths(S \ {m})

\* the subdirectories iterdir() finds in a directory
Subdirs(cfg, d) == {c \in cfg.dirs : c # <<>> /\ Front(c) = d}

\* PlatformDirectory.__init__ followed by recursively_read_children
PlatformDirectory(cfg, d) ==
    LET found == sorted_versions(cfg.inis[d])
    IN  [path |-> d,
         parent |-> IF d = <<>> THEN None ELSE Some(Front(d)),
         display_name |-> cfg.display_name[d],
         versions |-> [i \in 1..Len(found) |-> PlatformVersion(d, found[i])],
         children |-> SortPaths(Subdirs(cfg, d))]

\* VersionSortKey raises InvalidVersion for a stem that leaves no version text
InvalidStems(cfg) ==
    {x \in UNION {{cfg.inis[d][i].stem : i \in 1..Len(cfg.inis[d])} : d \in cfg.dirs} :
        ~ValidVersion(KeyText(x))}

versions_last(d) == IF tree[d].versions = <<>> THEN None ELSE Some(Last(tree[d].versions))
\* PlatformDirectory.latest_version
latest_version(d) ==
    IF tree[d].versions = <<>> THEN None ELSE Some(tree[d].versions[1])

(***************************************************************************)
(* Inputs: the config trees and the output file systems the runs start on. *)
(* Every directory holds its display_name file and every *.ini entry is a  *)
(* regular file, so the tree build can only end on a bad version stem.     *)
(***************************************************************************)
NameA == <<"a">>
NameB == <<"b">>
NameHtml == <<"1">> \o OUTPUT_SUFFIX
DirNames == {NameA, NameHtml}

RECURSIVE Trees(_)
Trees(n) ==
    IF n = 0
    THEN {{<<>>}}
    ELSE LET T == Trees(n - 1)
         IN  T \cup UNION {{t \cup {Append(p, nm)} :
                               p \in {q \in t : Len(q) < MaxDepth}, nm \in DirNames} :
                           t \in T}

Date1 == [year |-> 2019, month |-> 1, day |-> 2, hour |-> 3, minute |-> 4, second |-> 5]
Ini(stem, time) == [stem |-> stem, publication_time |-> time]

VersionStems ==
    {<<"2">>, <<"1", ".", "2">>, <<"1", ".", "1", "0">>, <<"1", "-", "2">>,
     <<"1", ".", "2", "a">>, <<"1", ".", "2", ".", "0">>, <<"1", ".", "0", "2">>,
     <<"i", "n", "d", "e", "x">>}

\* the *.ini files of one directory, in the order glob() returns them
GlobOrders ==
    {s \in UNION {[1..n -> VersionStems] : n \in 0..MaxVersions} :
        \A i, j \in 1..Len(s) : i # j => s[i] # s[j]}

DisplayX == <<"X">>
DisplayNames == {DisplayX, <<"1", "X">>, <<"A", " ", "B">>, <<"A", "B">>}

FsEntry(kind, build) == [kind |-> kind, build |-> build]
OldDir == FsEntry("dir", "old")
OldFile == FsEntry("file", "old")
FsNone == <<>>
FsFile ==
    (<<RELEASES>> :> OldFile) @@ (<<OUTPUT_INDEX>> :> OldFile) @@ (<<FEED_FILE>> :> OldFile)
FsStale ==
    (<<RELEASES>> :> OldDir) @@ (<<RELEASES, OUTPUT_INDEX>> :> OldFile) @@
    (<<RELEASES, NameA>> :> OldDir) @@ (<<RELEASES, NameA, OUTPUT_INDEX>> :> OldFile) @@
    (<<RELEASES, NameA, <<"1">> \o OUTPUT_SUFFIX>> :> OldFile) @@
    (<<OUTPUT_INDEX>> :> OldFile) @@ (<<FEED_FILE>> :> OldFile)
InitialFs == {FsNone, FsFile, FsStale}

\* tree shapes, every directory either empty or holding 1.ini and 2.ini
ShapeConfigs ==
    UNION {{[dirs |-> t, inis |-> f, display_name |-> [d \in t |-> DisplayX]] :
               f \in [t -> {<<>>, <<Ini(<<"1">>, None), Ini(<<"2">>, None)>>}]} :
           t \in Trees(MaxDirs)}

\* one platform directory whose version-config files vary
VersionConfigs ==
    {[dirs |-> {<<>>, <<NameA>>},
      inis |-> (<<>> :> <<>>) @@
               (<<NameA>> :> [i \in 1..Len(g) |-> Ini(g[i], None)]),
      display_name |-> (<<>> :> DisplayX) @@ (<<NameA>> :> DisplayX)] :
     g \in GlobOrders}

\* two platforms, side by side or nested, whose display names, versions and
\* publication times vary
FeedInis == {<<Ini(s, t)>> : s \in {<<"2">>, <<"2", "1">>}, t \in {None, Some(Date1)}}
FeedConfigs ==
    {[dirs |-> {<<>>, <<NameA>>, p},
      inis |-> (<<>> :> <<>>) @@ (<<NameA>> :> ia) @@ (p :> ib),
      display_name |-> (<<>> :> DisplayX) @@ (<<NameA>> :> da) @@ (p :> db)] :
     p \in {<<NameB>>, <<NameA, NameB>>}, ia \in FeedInis, ib \in FeedInis,
     da \in DisplayNames, db \in DisplayNames}

Configs == ShapeConfigs \cup VersionConfigs \cup FeedConfigs

Init ==
    /\ config \in Configs
    /\ fs0 \in InitialFs
    /\ fs = fs0
    /\ tree = <<>>
    /\ stack = <<>>
    /\ directory = <<>>
    /\ vidx = 1
    /\ visited = <<>>
    /\ feed = <<>>
    /\ log = <<>>
    /\ pc = "read_config"
    /\ err = ""

\* main: read_config() builds the whole tree, or a bad stem ends the run
read_config ==
    /\ pc = "read_config"
    /\ IF InvalidStems(config) # {}
       THEN /\ pc' = "aborted"
            /\ err' = "InvalidVersion"
            /\ UNCHANGED tree
       ELSE /\ tree' = [d \in config.dirs |-> PlatformDirectory(config, d)]
            /\ pc' = "write_website"
            /\ UNCHANGED err
    /\ UNCHANGED <<config, fs0, fs, stack, directory, vidx, visited, feed, log>>

(***************************************************************************)
(* The output file system: pathlib and shutil calls.  The working          *)
(* directory (the empty path) always exists.                               *)
(***************************************************************************)
Exists(f, p) == p = <<>> \/ p \in DOMAIN f
IsDir(f, p) == p = <<>> \/ (p \in DOMAIN f /\ f[p].kind = "dir")
IsPrefix(p, q) == Len(p) <= Len(q) /\ SubSeq(q, 1, Len(p)) = p
Put(f, p, e) == [q \in DOMAIN f \cup {p} |-> IF q = p THEN e ELSE f[q]]

\* a delete that takes the directory and its entries but not what lies deeper
rmtree_shallow(f, p) == [q \in {x \in DOMAIN f : ~(IsPrefix(p, x) /\ Len(x) <= Len(p) + 1)} |-> f[q]]
\* shutil.rmtree
rmtree(f, p) == [q \in {x \in DOMAIN f : ~IsPrefix(p, x)} |-> f[q]]

\* Path.mkdir(): the exception it raises, "" if none
MkdirError(f, p) ==
    IF Exists(f, p) THEN "FileExistsError"
    ELSE IF ~IsDir(f, Front(p)) THEN "FileNotFoundError"
    ELSE ""

\* Path.open("w"): the exception it raises, "" if none
OpenError(f, p) ==
    IF ~IsDir(f, Front(p)) THEN "FileNotFoundError"
    ELSE IF IsDir(f, p) THEN "IsADirectoryError"
    ELSE ""

NewDir == FsEntry("dir", "new")
NewFile == FsEntry("file", "new")
Call(op, f, p) ==
    [op |-> op, path |-> p, existed |-> Exists(f, p), parent_dir |-> IsDir(f, Front(p))]

NeverConflict(f) == FALSE
\* write_website: the releases path exists and is not a directory
ReleasesConflict(f) == Exists(f, <<RELEASES>>) /\ ~IsDir(f, <<RELEASES>>)

(***************************************************************************)
(* Page targets and the feed entry.                                        *)
(***************************************************************************)
\* _write_directory_index: target_path
DirectoryIndexPath(d) == <<RELEASES>> \o d \o <<OUTPUT_INDEX>>
\* _write_version_page: target_path
VersionPagePath(v) == <<RELEASES>> \o Front(v.path) \o <<v.version \o OUTPUT_SUFFIX>>
\* _write_frontpage_index: target_path
FrontpagePath == <<OUTPUT_INDEX>>
\* write_website: the directory made for a PlatformDirectory
OutputDir(d) == <<RELEASES>> \o d

\* _get_display_names, from the directory the walk starts at
RECURSIVE _get_display_names(_)
_get_display_names(d) ==
    IF tree[d].parent = None
    THEN <<>>
    ELSE _get_display_names(tree[d].parent[1]) \o <<tree[d].display_name>>

\* ' '.join(names)
RECURSIVE JoinSpace(_)
JoinSpace(names) ==
    IF names = <<>> THEN <<>>
    ELSE IF Len(names) = 1 THEN names[1]
    ELSE JoinSpace(Front(names)) \o <<" ">> \o Last(names)

\* str.replace(" ", '')
RemoveSpaces(s) == SelectSeq(s, LAMBDA c : c # " ")

RECURSIVE Pow10(_)
Pow10(n) == IF n = 0 THEN 1 ELSE 10 * Pow10(n - 1)
ZeroPad(n, w) == [i \in 1..w |-> DigitChar[((n \div Pow10(w - i)) % 10) + 1]]
\* datetime.isoformat(): YYYY-MM-DDTHH:MM:SS
isoformat(t) ==
    ZeroPad(t.year, 4) \o <<"-">> \o ZeroPad(t.month, 2) \o <<"-">> \o ZeroPad(t.day, 2)
    \o <<"T">> \o ZeroPad(t.hour, 2) \o <<":">> \o ZeroPad(t.minute, 2)
    \o <<":">> \o ZeroPad(t.second, 2)

UNSPECIFIED == <<"u", "n", "s", "p", "e", "c", "i", "f", "i", "e", "d">>

\* _add_node_to_feed: the entry feed.add receives
_add_node_to_feed(node_feed) ==
    LET display_name == JoinSpace(_get_display_names(node_feed.parent))
        stamp == IF node_feed.publication_time # None
                 THEN isoformat(node_feed.publication_time[1])
                 ELSE UNSPECIFIED
    IN  [id |-> stamp \o node_feed.version \o RemoveSpaces(display_name),
         title |-> display_name \o <<":", " ">> \o node_feed.version,
         directory |-> node_feed.parent,
         version |-> node_feed.version]

(***************************************************************************)
(* preorder_traversal.                                                     *)
(***************************************************************************)
DirNode(d) == [type |-> "directory", path |-> d]
VersionNode(v) == [type |-> "version", path |-> v.path]

Range(s) == {s[i] : i \in 1..Len(s)}

versions_after_first(d) == SubSeq(tree[d].versions, 2, Len(tree[d].versions))
\* preorder_traversal: the versions yielded for a directory
yielded_versions(d) == tree[d].versions

children_sorted(d) == SortPaths(Range(tree[d].children))
\* preorder_traversal: sorted(directory.children, reverse=True)
children_sorted_reversed(d) == Reverse(SortPaths(Range(tree[d].children)))

(***************************************************************************)
(* write_website.                                                          *)
(***************************************************************************)
\* write_website up to the creation of the traversal: the conflict check, the
\* delete of the previous output, the empty feed, the stack holding the root
write_website ==
    /\ pc = "write_website"
    /\ IF ReleasesConflict(fs)
       THEN /\ pc' = "aborted"
            /\ err' = "NotADirectoryError"
            /\ UNCHANGED <<fs, log, stack, feed>>
       ELSE /\ IF Exists(fs, <<RELEASES>>)
               THEN /\ fs' = rmtree(fs, <<RELEASES>>)
                    /\ log' = Append(log, Call("rmtree", fs, <<RELEASES>>))
               ELSE UNCHANGED <<fs, log>>
            /\ feed' = <<>>
            /\ stack' = <<<<>>>>
            /\ pc' = "traverse"
            /\ UNCHANGED err
    /\ UNCHANGED <<config, fs0, tree, directory, vidx, visited>>

\* a directory is popped and yielded; write_website makes its output
\* directory, writes its index and adds its latest version to the feed
visit_directory ==
    /\ pc = "traverse"
    /\ stack # <<>>
    /\ \E rendered \in BOOLEAN :
        LET d == Last(stack)
            made == Put(fs, OutputDir(d), NewDir)
            mkdir_err == MkdirError(fs, OutputDir(d))
            open_err == OpenError(made, DirectoryIndexPath(d))
            mkdir_call == Call("mkdir", fs, OutputDir(d))
            open_call == Call("write", made, DirectoryIndexPath(d))
        IN  /\ stack' = Front(stack)
            /\ directory' = d
            /\ visited' = Append(visited, DirNode(d))
            /\ vidx' = 1
            /\ IF mkdir_err # ""
               THEN /\ log' = Append(log, mkdir_call)
                    /\ pc' = "aborted"
                    /\ err' = mkdir_err
                    /\ UNCHANGED <<fs, feed>>
               ELSE IF ~rendered
               THEN /\ fs' = made
                    /\ log' = Append(log, mkdir_call)
                    /\ pc' = "aborted"
                    /\ err' = "RenderError"
                    /\ UNCHANGED feed
               ELSE IF open_err # ""
               THEN /\ fs' = made
                    /\ log' = log \o <<mkdir_call, open_call>>
                    /\ pc' = "aborted"
                    /\ err' = open_err
                    /\ UNCHANGED feed
               ELSE /\ fs' = Put(made, DirectoryIndexPath(d), NewFile)
                    /\ log' = log \o <<mkdir_call, open_call>>
                    /\ feed' = IF latest_version(d) # None
                               THEN Append(feed, _add_node_to_feed(latest_version(d)[1]))
                               ELSE feed
                    /\ pc' = "versions"
                    /\ UNCHANGED err
    /\ UNCHANGED <<config, fs0, tree>>

\* the next version of the current directory is yielded; write_website
\* writes its page
visit_version ==
    /\ pc = "versions"
    /\ vidx <= Len(yielded_versions(directory))
    /\ \E rendered \in BOOLEAN :
        LET v == yielded_versions(directory)[vidx]
            open_err == OpenError(fs, VersionPagePath(v))
            open_call == Call("write", fs, VersionPagePath(v))
        IN  /\ visited' = Append(visited, VersionNode(v))
            /\ vidx' = vidx + 1
            /\ IF ~rendered
               THEN /\ pc' = "aborted"
                    /\ err' = "RenderError"
                    /\ UNCHANGED <<fs, log>>
               ELSE IF open_err # ""
               THEN /\ log' = Append(log, open_call)
                    /\ pc' = "aborted"
                    /\ err' = open_err
                    /\ UNCHANGED fs
               ELSE /\ fs' = Put(fs, VersionPagePath(v), NewFile)
                    /\ log' = Append(log, open_call)
                    /\ UNCHANGED <<pc, err>>
    /\ UNCHANGED <<config, fs0, tree, stack, directory, feed>>

\* the versions are exhausted: the children go on the stack
push_children ==
    /\ pc = "versions"
    /\ vidx > Len(yielded_versions(directory))
    /\ stack' = stack \o children_sorted_reversed(directory)
    /\ pc' = "traverse"
    /\ UNCHANGED <<config, fs0, fs, tree, directory, vidx, visited, feed, log, err>>

\* the traversal is over: _write_frontpage_index
write_frontpage ==
    /\ pc = "traverse"
    /\ stack = <<>>
    /\ \E rendered \in BOOLEAN :
        LET open_err == OpenError(fs, FrontpagePath)
            open_call == Call("write", fs, FrontpagePath)
        IN  IF ~rendered
            THEN /\ pc' = "aborted"
                 /\ err' = "RenderError"
                 /\ UNCHANGED <<fs, log>>
            ELSE IF open_err # ""
            THEN /\ log' = Append(log, open_call)
                 /\ pc' = "aborted"
                 /\ err' = open_err
                 /\ UNCHANGED fs
            ELSE /\ fs' = Put(fs, FrontpagePath, NewFile)
                 /\ log' = Append(log, open_call)
                 /\ pc' = "feed"
                 /\ UNCHANGED err
    /\ UNCHANGED <<config, fs0, tree, stack, directory, vidx, visited, feed>>

\* the feed is written to its file
write_feed ==
    /\ pc = "feed"
    /\ LET open_err == OpenError(fs, <<FEED_FILE>>)
           open_call == Call("write", fs, <<FEED_FILE>>)
       IN  IF open_err # ""
           THEN /\ log' = Append(log, open_call)
                /\ pc' = "aborted"
                /\ err' = open_err
                /\ UNCHANGED fs
           ELSE /\ fs' = Put(fs, <<FEED_FILE>>, NewFile)
                /\ log' = Append(log, open_call)
                /\ pc' = "done"
                /\ UNCHANGED err
    /\ UNCHANGED <<config, fs0, tree, stack, directory, vidx, visited, feed>>

Next ==
    \/ read_config
    \/ write_website
    \/ visit_directory
    \/ visit_version
    \/ push_children
    \/ write_frontpage
    \/ write_feed

Spec == Init /\ [][Next]_vars

(***************************************************************************)
(* Notions the properties share.                                           *)
(***************************************************************************)
Built == DOMAIN tree # {}
TraversalOver == stack = <<>> /\ pc \in {"traverse", "feed", "done"}
AllNodes ==
    {DirNode(d) : d \in DOMAIN tree}
    \cup UNION {{VersionNode(tree[d].versions[i]) : i \in 1..Len(tree[d].versions)} :
                d \in DOMAIN tree}
\* the directories above a node: the proper prefixes of its path
Ancestors(n) == {SubSeq(n.path, 1, k) : k \in 0..(Len(n.path) - 1)}
\* the nodes of the subtree of directory a, a included
Subtree(a) == {n \in AllNodes : n = DirNode(a) \/ a \in Ancestors(n)}
VisitedBefore(n, j) == \E i \in 1..(j - 1) : visited[i] = n
Siblings(a, b) == a # <<>> /\ b # <<>> /\ a # b /\ Front(a) = Front(b)
Key(version) == _version_sorting_key(version.version)
UnderReleases(p) == Len(p) >= 2 /\ p[1] = RELEASES
IsPage(p) == p \in DOMAIN fs /\ fs[p].kind = "file" /\ (p = FrontpagePath \/ UnderReleases(p))

\* C1: preorder_traversal with versions yields no node twice, yields a node
\* only after every directory above it, and by its end has yielded every
\* directory and every version of the tree.
C1_EveryNodeOnceParentFirst ==
    /\ \A i, j \in 1..Len(visited) : i # j => visited[i] # visited[j]
    /\ \A j \in 1..Len(visited) :
           /\ visited[j] \in AllNodes
           /\ \A a \in Ancestors(visited[j]) : VisitedBefore(DirNode(a), j)
    /\ TraversalOver => Range(visited) = AllNodes

C1_Witness ==
    /\ pc = "done"
    /\ Len(tree[<<>>].children) >= 2
    /\ \E d \in DOMAIN tree :
           Len(d) = 2 /\ tree[d].versions # <<>> /\ tree[Front(d)].versions # <<>>

\* C2 as claimed: a directory is yielded only after each of its siblings
\* with a greater path, and after that sibling's whole subtree.
C2_SiblingsDescending ==
    \A j \in 1..Len(visited) : \A a \in DOMAIN tree :
        (/\ visited[j].type = "directory"
         /\ Siblings(a, visited[j].path)
         /\ PathLT(visited[j].path, a))
        => \A n \in Subtree(a) : VisitedBefore(n, j)

\* C2 as amended: a directory is yielded only after each of its siblings
\* with a smaller path, and after that sibling's whole subtree: siblings are
\* visited in ascending order of their paths.
C2_SiblingsAscending ==
    \A j \in 1..Len(visited) : \A a \in DOMAIN tree :
        (/\ visited[j].type = "directory"
         /\ Siblings(a, visited[j].path)
         /\ PathLT(a, visited[j].path))
        => \A n \in Subtree(a) : VisitedBefore(n, j)

C2_Witness ==
    \E j \in 1..Len(visited) : \E a \in DOMAIN tree :
        /\ visited[j].type = "directory"
        /\ Siblings(a, visited[j].path)
        /\ PathLT(a, visited[j].path)
        /\ tree[a].children # <<>>
        /\ tree[a].versions # <<>>

\* C3: in the built tree, latest_version of a directory is None exactly when
\* the directory has no version-config file, and otherwise is one of the
\* directory's versions whose sorting key no other version's key exceeds.
C3_LatestVersionIsGreatest ==
    \A d \in DOMAIN tree :
        /\ latest_version(d) = None <=> config.inis[d] = <<>>
        /\ latest_version(d) # None =>
               /\ \E i \in 1..Len(config.inis[d]) :
                      latest_version(d)[1] = PlatformVersion(d, config.inis[d][i])
               /\ \A i \in 1..Len(config.inis[d]) :
                      KeyGE(Key(latest_version(d)[1]),
                            _version_sorting_key(config.inis[d][i].stem))

C3_Witness ==
    \E d \in DOMAIN tree :
        /\ Len(config.inis[d]) >= 2
        /\ latest_version(d)[1].version # config.inis[d][1].stem
        /\ KeyLT(_version_sorting_key(config.inis[d][1].stem), Key(latest_version(d)[1]))

\* C4 as claimed: the versions a directory stores have strictly descending
\* sorting keys (the base filenames of one directory are always distinct).
C4_StrictlyDescending ==
    \A d \in DOMAIN tree : \A i \in 1..(Len(tree[d].versions) - 1) :
        KeyLT(Key(tree[d].versions[i + 1]), Key(tree[d].versions[i]))

\* C4 as amended: the versions a directory stores have descending sorting
\* keys, each at least the key of the version stored after it; the stored
\* versions are the directory's version-config files, each once.
C4_Descending ==
    \A d \in DOMAIN tree :
        /\ \A i \in 1..(Len(tree[d].versions) - 1) :
               KeyGE(Key(tree[d].versions[i]), Key(tree[d].versions[i + 1]))
        /\ Len(tree[d].versions) = Len(config.inis[d])
        /\ {tree[d].versions[i].version : i \in 1..Len(tree[d].versions)}
               = {config.inis[d][i].stem : i \in 1..Len(config.inis[d])}

C4_Witness ==
    \E d \in DOMAIN tree :
        /\ Len(tree[d].versions) >= 2
        /\ tree[d].versions[1].version # tree[d].versions[2].version
        /\ Key(tree[d].versions[1]) = Key(tree[d].versions[2])

\* C5: after a complete run the feed holds exactly one entry for each
\* directory other than the root that has a latest version, and no entry
\* for the root or for a directory without versions.
C5_FeedSkipsRoot ==
    pc = "done" =>
        \A d \in DOMAIN tree :
            Cardinality({i \in 1..Len(feed) : feed[i].directory = d})
                = IF d # <<>> /\ latest_version(d) # None THEN 1 ELSE 0

\* C6: two feed entries of different directories, or of different versions,
\* never have the same feed_id.
C6_FeedIdsUnique ==
    \A i, j \in 1..Len(feed) :
        (feed[i].directory # feed[j].directory \/ feed[i].version # feed[j].version)
        => feed[i].id # feed[j].id

\* C7 as claimed: the front page, the directory indexes and the version
\* pages never hold a page of an earlier build together with a page of the
\* current build.
C7_NoStalePageWithFreshPage ==
    ~\E p, q \in DOMAIN fs :
        /\ IsPage(p) /\ fs[p].build = "old"
        /\ IsPage(q) /\ fs[q].build = "new"

\* C7 as amended: the delete of releases/ is the first call that changes
\* the output, and releases/ never holds an entry of an earlier build
\* together with an entry of the current build; the front page lies
\* outside releases/ and is not covered.
C7_ReleasesNeverMixed ==
    /\ (log # <<>> /\ <<RELEASES>> \in DOMAIN fs0) => log[1].op = "rmtree"
    /\ ~\E p, q \in DOMAIN fs :
           /\ p[1] = RELEASES /\ fs[p].build = "old"
           /\ q[1] = RELEASES /\ fs[q].build = "new"

C7_Witness ==
    /\ fs0 = FsStale
    /\ pc = "aborted"
    /\ err = "RenderError"
    /\ \E q \in DOMAIN fs : UnderReleases(q) /\ fs[q].kind = "file" /\ fs[q].build = "new"
    /\ fs[FrontpagePath].build = "old"

\* C8: when the releases path is a regular file as write_website starts,
\* the run ends with NotADirectoryError and nothing has been deleted,
\* created or written: the file system is the one the run started on.
C8_ConflictLeavesOutputUntouched ==
    (<<RELEASES>> \in DOMAIN fs0 /\ fs0[<<RELEASES>>].kind = "file") =>
        /\ fs = fs0
        /\ log = <<>>
        /\ pc \in {"read_config", "write_website", "aborted"}
        /\ pc = "aborted" => err \in {"InvalidVersion", "NotADirectoryError"}
        /\ (pc = "aborted" /\ Built) => err = "NotADirectoryError"

C8_Witness ==
    /\ fs0 = FsFile
    /\ Built
    /\ pc = "aborted"
    /\ err = "NotADirectoryError"
    /\ fs = FsFile

\* C9: every mkdir of the build is made when its path does not exist and
\* its parent directory does, no path is made twice, every page written
\* under releases/ goes into a directory made before, and by the end of the
\* traversal the output directory of every directory has been made.
C9_DirectoriesMadeOnceBeforeUse ==
    /\ \A i \in 1..Len(log) :
           /\ log[i].op = "mkdir" =>
                  /\ ~log[i].existed
                  /\ log[i].parent_dir
                  /\ \A j \in 1..(i - 1) : log[j].op = "mkdir" => log[j].path # log[i].path
           /\ (log[i].op = "write" /\ UnderReleases(log[i].path)) =>
                  \E j \in 1..(i - 1) :
                      log[j].op = "mkdir" /\ log[j].path = Front(log[i].path)
    /\ TraversalOver =>
           \A d \in DOMAIN tree :
               \E i \in 1..Len(log) : log[i].op = "mkdir" /\ log[i].path = OutputDir(d)

\* C10: within one build no output path is the target of two calls: no page
\* is written twice and no page path is also the path of an output
\* directory.
C10_OutputPathsDistinct ==
    \A i, j \in 1..Len(log) :
        (i # j /\ log[i].op \in {"mkdir", "write"} /\ log[j].op \in {"mkdir", "write"})
        => log[i].path # log[j].path
====
